---- MODULE Spec2Model ----
(***************************************************************************)
(* Retirement savings calculator (retire.py).                              *)
(*                                                                         *)
(* The program is one calculation, calculate_retirement_savings, and the   *)
(* Streamlit script main that reads thirteen widgets, checks the ordering  *)
(* of the ages, and on a press of the Calculate button calls the           *)
(* calculation, shows the outcome and appends to the log file.             *)
(*                                                                         *)
(* Numbers.  Expenses and ages are Python ints.  The two rates are Python  *)
(* floats; they are modelled as exact fractions [n, d] in lowest terms, so *)
(* rounding error of the binary representation is outside the model.  The  *)
(* one float effect that changes control flow is kept: float ** int raises *)
(* OverflowError when the power leaves the float range, which the          *)
(* calculation catches in its generic handler.                             *)
(***************************************************************************)
EXTENDS Integers, Sequences, FiniteSets, TLC

VARIABLES inputs, ret, steps, display, log, pc, prev

vars == <<inputs, ret, steps, display, log, pc, prev>>

(***************************************************************************)
(* Bounds of the model.                                                    *)
(***************************************************************************)
MaxExpense == 1
MaxAge == 3
MaxLog == 2
\* The yearly rates of the model are the multiples k / MaxRate, k <= MaxRate,
\* and FloatMax is the largest float: the rates and the float range are scaled
\* so that compounding over MaxAge years leaves the float range.
MaxRate == 2
FloatMax == 3

(***************************************************************************)
(* Exact fractions standing for Python floats.                             *)
(***************************************************************************)
Abs(x) == IF x < 0 THEN -x ELSE x

RECURSIVE GCD(_, _)
GCD(x, y) == IF y = 0 THEN x ELSE GCD(y, x % y)

Norm(n, d) ==
    LET s == IF d < 0 THEN -1 ELSE 1
        g == GCD(Abs(n), Abs(d))
    IN  [n |-> (s * n) \div g, d |-> (s * d) \div g]

Float(k) == [n |-> k, d |-> 1]

FAdd(x, y) ==
    LET g == GCD(x.d, y.d)
    IN  Norm(x.n * (y.d \div g) + y.n * (x.d \div g), (x.d \div g) * y.d)

FNeg(x) == [n |-> -x.n, d |-> x.d]

FSub(x, y) == FAdd(x, FNeg(y))

FMul(x, y) ==
    LET g1 == GCD(Abs(x.n), y.d)
        g2 == GCD(Abs(y.n), x.d)
    IN  Norm((x.n \div g1) * (y.n \div g2), (x.d \div g2) * (y.d \div g1))

\* x / y for y # 0
FDiv(x, y) == FMul(x, Norm(y.d, y.n))

FLt(x, y) ==
    LET g == GCD(x.d, y.d)
    IN  x.n * (y.d \div g) < y.n * (x.d \div g)

FLe(x, y) == ~FLt(y, x)

RECURSIVE FPow(_, _)
FPow(b, e) ==
    IF e = 0 THEN Float(1)
    ELSE IF e > 0 THEN FMul(b, FPow(b, e - 1))
    ELSE FDiv(Float(1), FPow(b, -e))

\* float ** int raises OverflowError when the power is above the largest float
Overflows(x) == FLt(Float(FloatMax), x)

(***************************************************************************)
(* Values returned, shown and logged.                                      *)
(***************************************************************************)
None == <<>>
Some(x) == <<x>>
Val(o) == o[1]

\* f"{total_savings:,.2f}": the amount in cents, rounded half to even
Format2f(q) ==
    LET x == FMul(q, Float(100))
        fl == x.n \div x.d
        rem2 == 2 * (x.n - fl * x.d)
    IN  IF rem2 < x.d THEN fl
        ELSE IF rem2 > x.d THEN fl + 1
        ELSE IF fl % 2 = 0 THEN fl ELSE fl + 1

StError(text) == [kind |-> "error", text |-> text, amount |-> None]
StInfo(text) == [kind |-> "info", text |-> text, amount |-> None]
StSuccess(q) ==
    [kind |-> "success", text |-> "Total Retirement Savings Needed",
     amount |-> Some(Format2f(q))]

LogError(msg) == [level |-> "ERROR", msg |-> msg, amount |-> None]
LogWarning(msg) == [level |-> "WARNING", msg |-> msg, amount |-> None]
LogInfo(q) ==
    [level |-> "INFO", msg |-> "Calculation successful",
     amount |-> Some(Format2f(q))]

(***************************************************************************)
(* The thirteen inputs.                                                    *)
(***************************************************************************)
ExpenseFields == {"hme", "mle", "go", "ve", "gm", "fme", "ee", "hce"}
AgeFields == {"a", "r", "le"}
RateFields == {"i", "r_rate"}

IsNegative(x, f) == IF f \in RateFields THEN x[f].n < 0 ELSE x[f] < 0

\* mutant: the two rates are left out of the validation
AnyNegativeButRates(x) ==
    \E f \in ExpenseFields \cup AgeFields : IsNegative(x, f)

\* any(x < 0 for x in [hme, mle, go, ve, gm, fme, ee, hce, a, r, le, i, r_rate])
AnyNegative(x) ==
    \E f \in ExpenseFields \cup AgeFields \cup RateFields : IsNegative(x, f)

\* mutant: the yearly vacation expense is annualised like a monthly one
AnnualExpensesVacationMonthly(x) ==
    12 * (x.hme + x.mle + x.go + x.fme + x.hce + x.ve) + x.gm + x.ee

\* 12 * (hme + mle + go + fme + hce) + ve + gm + ee
AnnualExpenses(x) ==
    12 * (x.hme + x.mle + x.go + x.fme + x.hce) + x.ve + x.gm + x.ee

(***************************************************************************)
(* calculate_retirement_savings.  The result records the value returned,   *)
(* the statements executed in order, and what the call itself wrote to the *)
(* page (errors) and to the log file (logs).                               *)
(***************************************************************************)
\* mutant: the calculation logs its own success
ReturnedLogged(value, done) ==
    [ret |-> Some(value), steps |-> done, errors |-> <<>>, logs |-> <<LogInfo(value)>>]

Returned(value, done) ==
    [ret |-> Some(value), steps |-> done, errors |-> <<>>, logs |-> <<>>]

\* mutant: a failure of the calculation is not logged by it
FailedUnlogged(done, text, msg) ==
    [ret |-> None, steps |-> done, errors |-> <<StError(text)>>, logs |-> <<>>]

Failed(done, text, msg) ==
    [ret |-> None, steps |-> done,
     errors |-> <<StError(text)>>, logs |-> <<LogError(msg)>>]

ValueErrorHandler(done) ==
    Failed(done, "Input error: Inputs must be non-negative.",
           "Input validation error")

ExceptionHandler(done) ==
    Failed(done, "An unexpected error occurred during the calculation.",
           "Error during calculation")

RealReturnGuard(done) ==
    Failed(done, "The real return rate must be greater than 0.",
           "Invalid real return rate")

\* mutant: the guard lets a real return rate of zero through
RealReturnNegative(real_return_rate) == FLt(real_return_rate, Float(0))

\* real_return_rate <= 0
RealReturnNotPositive(real_return_rate) == FLe(real_return_rate, Float(0))

\* (1 + real_return_rate) ** years_in_retirement
Discount(real_return_rate, years_in_retirement) ==
    FPow(FAdd(Float(1), real_return_rate), years_in_retirement)

\* mutant: the operands of the subtraction are swapped
TotalSavingsSwapped(inflation_adjusted_expenses, real_return_rate, discount) ==
    FMul(FDiv(inflation_adjusted_expenses, real_return_rate),
         FSub(FDiv(Float(1), discount), Float(1)))

\* mutant: the discount term is added
TotalSavingsAdded(inflation_adjusted_expenses, real_return_rate, discount) ==
    FMul(FDiv(inflation_adjusted_expenses, real_return_rate),
         FAdd(Float(1), FDiv(Float(1), discount)))

\* (inflation_adjusted_expenses / real_return_rate) * (1 - (1 / discount))
TotalSavings(inflation_adjusted_expenses, real_return_rate, discount) ==
    FMul(FDiv(inflation_adjusted_expenses, real_return_rate),
         FSub(Float(1), FDiv(Float(1), discount)))

calculate_retirement_savings(x) ==
    IF AnyNegative(x) THEN ValueErrorHandler(<<"validate">>)
    ELSE
    LET annual_expenses == AnnualExpenses(x)
        years_to_retirement == x.r - x.a
        growth == FPow(FAdd(Float(1), x.i), years_to_retirement)
    IN  IF Overflows(growth)
        THEN ExceptionHandler(<<"validate", "annual_expenses", "inflate">>)
        ELSE
        LET inflation_adjusted_expenses == FMul(Float(annual_expenses), growth)
            years_in_retirement == x.le - x.r
            real_return_rate == FSub(x.r_rate, x.i)
            pre == <<"validate", "annual_expenses", "inflate", "real_return_rate", "guard">>
        IN  IF RealReturnNotPositive(real_return_rate) THEN RealReturnGuard(pre)
            ELSE IF real_return_rate.n = 0
            THEN \* ZeroDivisionError
                 ExceptionHandler(pre \o <<"divide">>)
            ELSE
            LET discount == Discount(real_return_rate, years_in_retirement)
            IN  IF Overflows(discount)
                THEN ExceptionHandler(pre \o <<"divide", "discount">>)
                ELSE Returned(
                        TotalSavings(inflation_adjusted_expenses, real_return_rate, discount),
                        pre \o <<"divide", "discount", "return">>)

(***************************************************************************)
(* Input sets.                                                             *)
(***************************************************************************)
\* st.slider(..., min_value=0.0, max_value=10.0) / 100: position k of the
\* slider is the rate k / MaxRate
Slider(k) == FDiv(Float(k), Float(MaxRate))

\* the slider cannot go below its min_value; a direct call can pass any rate
SliderPositions == 0 .. MaxRate
CallPositions == -1 .. MaxRate

\* number_input(..., min_value=0)
NumberInputMin == 0

\* one field at v, the seven others at w
ExpenseVectors(vs, w) ==
    {[f \in ExpenseFields |-> IF f = g THEN v ELSE w] : g \in ExpenseFields, v \in vs}

Inputs(e, a, r, le, i, r_rate) ==
    [hme |-> e["hme"], mle |-> e["mle"], go |-> e["go"], ve |-> e["ve"],
     gm |-> e["gm"], fme |-> e["fme"], ee |-> e["ee"], hce |-> e["hce"],
     a |-> a, r |-> r, le |-> le, i |-> i, r_rate |-> r_rate]

InputSet(es, ages, positions) ==
    {Inputs(e, a, r, le, Slider(ip), Slider(rp)) :
        e \in es, a \in ages, r \in ages, le \in ages,
        ip \in positions, rp \in positions}

\* arguments of a direct call: any sign
CallInputs ==
    InputSet(ExpenseVectors(-1 .. MaxExpense, 0)
                 \cup ExpenseVectors({-1, MaxExpense}, MaxExpense),
             -1 .. MaxAge, CallPositions)

\* arguments of a pair of calls: what main could pass
PairInputs ==
    InputSet(ExpenseVectors({NumberInputMin, MaxExpense}, MaxExpense),
             NumberInputMin .. MaxAge, SliderPositions)

\* what the widgets of main can hold
WidgetInputs ==
    InputSet(ExpenseVectors({NumberInputMin, MaxExpense}, NumberInputMin),
             NumberInputMin .. MaxAge, SliderPositions)

(***************************************************************************)
(* State.                                                                  *)
(*   inputs   the thirteen values (widget values, or arguments of a call)  *)
(*   ret      what the last call of the calculation returned               *)
(*   steps    the statements that call executed                            *)
(*   display  the messages on the page                                     *)
(*   log      the log file (append only)                                   *)
(*   pc       where the last handler ended                                 *)
(*   prev     the call before the last one (history)                       *)
(***************************************************************************)
InitWith(S) ==
    /\ inputs \in S
    /\ ret = None
    /\ steps = <<>>
    /\ display = <<>>
    /\ log = <<>>
    /\ pc = "ready"
    /\ prev = <<>>

\* a direct call of calculate_retirement_savings with the inputs
Call ==
    /\ pc = "ready"
    /\ LET out == calculate_retirement_savings(inputs)
       IN  /\ ret' = out.ret
           /\ steps' = out.steps
           /\ display' = display \o out.errors
           /\ log' = log \o out.logs
    /\ pc' = "called"
    /\ UNCHANGED <<inputs, prev>>

\* a second direct call, the same arguments but for lifeExpectancy
CallWithHorizon(v) ==
    /\ pc = "called"
    /\ prev' = <<[args |-> inputs, ret |-> ret]>>
    /\ inputs' = [inputs EXCEPT !.le = v]
    /\ LET out == calculate_retirement_savings(inputs')
       IN  /\ ret' = out.ret
           /\ steps' = out.steps
           /\ display' = display \o out.errors
           /\ log' = log \o out.logs
    /\ pc' = "recalled"

\* mutant: the checks of main are strict comparisons
AgeOrderingFailureStrict(x) ==
    IF x.r < x.a
    THEN Some([error |-> StError("Retirement age must be greater than current age."),
               log |-> LogError("Retirement age is less than or equal to current age.")])
    ELSE IF x.le < x.r
    THEN Some([error |-> StError("Life expectancy must be greater than retirement age."),
               log |-> LogError("Life expectancy is less than or equal to retirement age.")])
    ELSE None

\* the checks of main on the ages: the rejection, or None
AgeOrderingFailure(x) ==
    IF x.r <= x.a
    THEN Some([error |-> StError("Retirement age must be greater than current age."),
               log |-> LogError("Retirement age is less than or equal to current age.")])
    ELSE IF x.le <= x.r
    THEN Some([error |-> StError("Life expectancy must be greater than retirement age."),
               log |-> LogError("Life expectancy is less than or equal to retirement age.")])
    ELSE None

\* mutant: main shows the success message without looking at the result
ShowResultUnchecked(out) ==
    [display |-> <<StSuccess(IF out.ret # None THEN Val(out.ret) ELSE Float(0))>>,
     log |-> <<LogWarning("Calculation returned None due to input issues.")>>]

\* what main shows and logs once the calculation has returned
ShowResult(out) ==
    IF out.ret # None
    THEN [display |-> <<StSuccess(Val(out.ret))>>, log |-> <<LogInfo(Val(out.ret))>>]
    ELSE [display |-> <<>>,
          log |-> <<LogWarning("Calculation returned None due to input issues.")>>]

\* one run of the script main; pressed: the run was caused by the Calculate button
MainRun(pressed) ==
    /\ Len(log) < MaxLog
    /\ LET rejected == AgeOrderingFailure(inputs)
       IN  IF rejected # None THEN
               /\ display' = <<Val(rejected).error>>
               /\ log' = Append(log, Val(rejected).log)
               /\ pc' = "age_rejected"
               /\ ret' = None
               /\ steps' = <<>>
           ELSE IF pressed THEN
               LET out == calculate_retirement_savings(inputs)
                   shown == ShowResult(out)
               IN  /\ ret' = out.ret
                   /\ steps' = out.steps
                   /\ pc' = "calculated"
                   /\ display' = <<StInfo("Calculating your retirement savings...")>>
                                     \o out.errors \o shown.display
                   /\ log' = log \o out.logs \o shown.log
           ELSE
               /\ display' = <<>>
               /\ log' = log
               /\ pc' = "idle"
               /\ ret' = None
               /\ steps' = <<>>
    /\ UNCHANGED <<inputs, prev>>

PressCalculate == MainRun(TRUE)
Rerun == MainRun(FALSE)

\* Direct calls of the calculation
Init == InitWith(CallInputs)
Next == Call
Spec == Init /\ [][Next]_vars

\* Pairs of direct calls that differ in lifeExpectancy
InitPair == InitWith(PairInputs)
NextPair ==
    \/ Call
    \/ \E v \in NumberInputMin .. MaxAge : CallWithHorizon(v)
SpecPair == InitPair /\ [][NextPair]_vars

\* The Streamlit session
InitSession == InitWith(WidgetInputs)
NextSession ==
    \/ PressCalculate
    \/ Rerun
SpecSession == InitSession /\ [][NextSession]_vars

TypeOK ==
    /\ pc \in {"ready", "called", "recalled", "age_rejected", "calculated", "idle"}
    /\ Len(ret) <= 1
    /\ Len(prev) <= 1

(***************************************************************************)
(* Vocabulary of the properties.                                           *)
(***************************************************************************)
Executed(step) == \E k \in 1 .. Len(steps) : steps[k] = step

Shows(kind) == \E k \in 1 .. Len(display) : display[k].kind = kind

NoNegativeInput(x) ==
    /\ \A f \in ExpenseFields \cup AgeFields : x[f] >= 0
    /\ x.i.n >= 0
    /\ x.r_rate.n >= 0

\* non-negative expenses, 0 <= currentAge < retirementAge < lifeExpectancy,
\* returnRate > inflationRate >= 0
Valid(x) ==
    /\ \A f \in ExpenseFields : x[f] >= 0
    /\ 0 <= x.a
    /\ x.a < x.r
    /\ x.r < x.le
    /\ x.i.n >= 0
    /\ FLt(x.i, x.r_rate)

AgeOrderingViolated(x) == x.r <= x.a \/ x.le <= x.r

InflationPowerInRange(x) ==
    FLe(FPow(FAdd(Float(1), x.i), x.r - x.a), Float(FloatMax))

DiscountPowerInRange(x) ==
    FLe(FPow(FAdd(Float(1), FSub(x.r_rate, x.i)), x.le - x.r), Float(FloatMax))

PowersInRange(x) == InflationPowerInRange(x) /\ DiscountPowerInRange(x)

\* the formula of the specification, section 4.1 steps 1 to 7
Reference(x) ==
    LET annualExpenses ==
            12 * x.hme + 12 * x.mle + 12 * x.go + 12 * x.fme + 12 * x.hce
                + x.ve + x.gm + x.ee
        realReturnRate == FSub(x.r_rate, x.i)
        inflationAdjustedExpenses ==
            FMul(Float(annualExpenses), FPow(FAdd(Float(1), x.i), x.r - x.a))
    IN  FMul(FDiv(inflationAdjustedExpenses, realReturnRate),
             FSub(Float(1), FPow(FAdd(Float(1), realReturnRate), -(x.le - x.r))))

RealReturnMessage == "The real return rate must be greater than 0."
InputMessage == "Input error: Inputs must be non-negative."
UnexpectedMessage == "An unexpected error occurred during the calculation."

(***************************************************************************)
(* C1                                                                      *)
(***************************************************************************)
\* C1 as stated: whenever returnRate <= inflationRate, the call returns the
\* NonPositiveRealReturn failure and the division is not reached.
C1_Original ==
    (pc = "called" /\ FLe(inputs.r_rate, inputs.i)) =>
        /\ ret = None
        /\ Len(display) = 1
        /\ display[1].text = RealReturnMessage
        /\ ~Executed("divide")

\* C1 amended: whenever returnRate <= inflationRate the call returns a failure
\* and the division is not reached; the failure is NonPositiveRealReturn when
\* no input is negative and the inflation power stays in the float range,
\* InvalidInput when an input is negative, ComputationFailure otherwise.
C1_GuardBeforeDivision ==
    (pc = "called" /\ FLe(inputs.r_rate, inputs.i)) =>
        /\ ret = None
        /\ ~Executed("divide")
        /\ Len(display) = 1
        /\ display[1].text =
               IF ~NoNegativeInput(inputs) THEN InputMessage
               ELSE IF ~InflationPowerInRange(inputs) THEN UnexpectedMessage
               ELSE RealReturnMessage

C1_Witness ==
    /\ pc = "called"
    /\ inputs.r_rate = inputs.i
    /\ Executed("guard")
    /\ display = <<StError(RealReturnMessage)>>

(***************************************************************************)
(* C2                                                                      *)
(***************************************************************************)
\* C2: in a run of main with retirementAge <= currentAge or lifeExpectancy <=
\* retirementAge the run is rejected before the calculation is invoked: an
\* error is shown, and no amount is produced, shown or logged.
C2_AgeOrderingRejected ==
    (pc # "ready" /\ AgeOrderingViolated(inputs)) =>
        /\ pc = "age_rejected"
        /\ steps = <<>>
        /\ ret = None
        /\ ~Shows("success")
        /\ Shows("error")
        /\ \A k \in 1 .. Len(log) : log[k].amount = None

C2_Witness ==
    /\ pc = "age_rejected"
    /\ inputs.a < inputs.r
    /\ inputs.le <= inputs.r
    /\ Len(log) >= 1

(***************************************************************************)
(* C3                                                                      *)
(***************************************************************************)
\* C3 as stated: a direct call with retirementAge <= currentAge or
\* lifeExpectancy <= retirementAge, the other inputs non-negative and
\* returnRate > inflationRate, fails instead of returning an amount.
C3_CoreChecksAges ==
    (/\ pc = "called"
     /\ AgeOrderingViolated(inputs)
     /\ NoNegativeInput(inputs)
     /\ FLt(inputs.i, inputs.r_rate)) => ret = None

(***************************************************************************)
(* C4                                                                      *)
(***************************************************************************)
\* C4: a call with a negative input ends with the InvalidInput failure: only
\* the validation has run, nothing is returned, whatever the other inputs.
C4_NegativeInputRejected ==
    (pc = "called" /\ ~NoNegativeInput(inputs)) =>
        /\ ret = None
        /\ steps = <<"validate">>
        /\ Len(display) = 1
        /\ display[1].text = InputMessage
        /\ Len(log) = 1
        /\ log[1].msg = "Input validation error"

C4_Witness ==
    /\ pc = "called"
    /\ inputs.r_rate.n < 0
    /\ \A f \in ExpenseFields \cup AgeFields : inputs[f] >= 0
    /\ inputs.i.n >= 0
    /\ inputs.a < inputs.r
    /\ inputs.r < inputs.le
    /\ ret = None
    /\ steps = <<"validate">>

(***************************************************************************)
(* C5                                                                      *)
(***************************************************************************)
\* C5 as stated: for every valid input the call returns an amount, and the
\* amount is non-negative.
C5_Original ==
    (pc = "called" /\ Valid(inputs)) => (ret # None /\ Val(ret).n >= 0)

\* C5 amended: for every valid input whose two powers stay in the float range
\* the call returns a non-negative amount; for a valid input with a power out
\* of range it returns the ComputationFailure failure.
C5_NonNegative ==
    (pc = "called" /\ Valid(inputs)) =>
        IF PowersInRange(inputs)
        THEN ret # None /\ Val(ret).n >= 0
        ELSE ret = None /\ Len(display) = 1 /\ display[1].text = UnexpectedMessage

C5_Witness ==
    /\ pc = "called"
    /\ Valid(inputs)
    /\ PowersInRange(inputs)
    /\ ret # None
    /\ Val(ret).n > 0

(***************************************************************************)
(* C6                                                                      *)
(***************************************************************************)
\* C6 as stated: for every valid input the amount returned is the reference
\* formula, the five monthly fields weighted by 12 and the three yearly by 1.
C6_Original ==
    (pc = "called" /\ Valid(inputs)) => ret = Some(Reference(inputs))

\* C6 amended: for every valid input whose two powers stay in the float range
\* the amount returned is the reference formula.
C6_ReferenceFormula ==
    (pc = "called" /\ Valid(inputs) /\ PowersInRange(inputs)) =>
        ret = Some(Reference(inputs))

C6_Witness ==
    /\ pc = "called"
    /\ Valid(inputs)
    /\ PowersInRange(inputs)
    /\ inputs.ve > 0
    /\ inputs.hme = 0
    /\ inputs.i.n > 0
    /\ ret = Some(Reference(inputs))
    /\ Val(ret).n > 0

C8_NoFigureOnFailure ==
    /\ Shows("success") =>
           (pc = "calculated" /\ ret # None /\ ~Shows("error"))
    /\ (pc = "age_rejected" \/ (pc = "calculated" /\ ret = None)) =>
           /\ Shows("error")
           /\ \A k \in 1 .. Len(display) : display[k].amount = None

C8_Witness ==
    /\ pc = "calculated"
    /\ ret = None
    /\ Shows("error")
    /\ ~Shows("success")

LastArgs == Val(prev).args
LastRet == Val(prev).ret

HorizonLengthened ==
    /\ pc = "recalled"
    /\ Valid(LastArgs)
    /\ Valid(inputs)
    /\ \A f \in (ExpenseFields \cup AgeFields \cup RateFields) \ {"le"} :
           LastArgs[f] = inputs[f]
    /\ LastArgs.le < inputs.le

\* C10 as stated: of two valid inputs that differ only in lifeExpectancy, the
\* one with the larger lifeExpectancy yields the larger or equal amount.
C10_Original ==
    HorizonLengthened =>
        (LastRet # None /\ ret # None /\ FLe(Val(LastRet), Val(ret)))

\* C10 amended: of two valid inputs that differ only in lifeExpectancy, if the
\* call with the larger lifeExpectancy returns an amount (its powers stay in
\* the float range) then so does the other, and the amount of the larger
\* lifeExpectancy is greater than or equal to the other's.
C10_MonotoneHorizon ==
    (HorizonLengthened /\ PowersInRange(inputs)) =>
        (LastRet # None /\ ret # None /\ FLe(Val(LastRet), Val(ret)))

C10_Witness ==
    /\ HorizonLengthened
    /\ LastRet # None
    /\ ret # None
    /\ FLt(Val(LastRet), Val(ret))

====
